---- MODULE Spec2Model ----
(***************************************************************************)
(* Model of src/main.rs: a winit ApplicationHandler (App) that builds its  *)
(* wgpu resources in `resumed`, tessellates one circle into a vertex       *)
(* buffer, and reacts to window events (resize, redraw, key, cursor,       *)
(* close).  GPU objects are modelled by the generation (the number of the  *)
(* initialize_wgpu run) that created them plus the contents the program    *)
(* wrote into them.  f32 values are modelled by their IEEE-754 binary32    *)
(* value (class, 24-bit significand, exponent).                            *)
(***************************************************************************)
EXTENDS Integers, Sequences, FiniteSets, TLC

VARIABLES
    window,              \* App.window: Option<Arc<Window>>
    surface,             \* App.surface, with the configuration last applied to it
    device,              \* App.device
    queue,               \* App.queue
    render_pipeline,     \* App.render_pipeline
    vertex_buffer,       \* App.vertex_buffer, with its uploaded contents
    config,              \* App.config: Option<SurfaceConfiguration>
    shapes,              \* App.shapes
    num_vertices,        \* App.num_vertices
    uniform_buffer,      \* App.uniform_buffer, with its contents
    uniform_bind_group,  \* App.uniform_bind_group
    mouse_state,         \* App.mouse_state
    redraw_requested,    \* Window::request_redraw was called and not yet served
    exiting,             \* ActiveEventLoop::exit was called
    pc,                  \* "running" | "exited" (run_app returned)
    panic,               \* message of the panic that aborted the process, or NoPanic
    init_count,          \* number of initialize_wgpu runs that stored their resources
    resumed_count,       \* number of `resumed` notifications delivered
    last_event,          \* the event handled by the most recent handler call
    resize_repeats,      \* how many Resized events in a row carried the same size (capped)
    last_resize,         \* size of the latest Resized handled since the resources were stored
    frame_log,           \* GPU calls render_frame made in the most recent handler call, in order
    tess_in,             \* generate_vertices: the shape it is called on
    tess_out             \* generate_vertices: Option of the returned Vec<Vertex>

vars == << window, surface, device, queue, render_pipeline, vertex_buffer, config,
           shapes, num_vertices, uniform_buffer, uniform_bind_group, mouse_state,
           redraw_requested, exiting, pc, panic, init_count, resumed_count,
           last_event, resize_repeats, last_resize, frame_log, tess_in, tess_out >>

app_fields == << window, surface, device, queue, render_pipeline, vertex_buffer, config,
                 shapes, num_vertices, uniform_buffer, uniform_bind_group, mouse_state >>

(***************************************************************************)
(* Bounds of the model.                                                    *)
(***************************************************************************)
MaxSmallDim == 1     \* window dimensions 0..MaxSmallDim besides the named sizes
MaxResumes == 2      \* `resumed` notifications delivered in one run
MaxCursor == 1       \* cursor x coordinates 0..MaxCursor (y is 0 or 1)
MaxRepeats == 2      \* consecutive identical Resized events that are counted
MaxSegments == 4     \* segment counts 0..MaxSegments fed to generate_vertices

(***************************************************************************)
(* Option<T>: None is the empty sequence, Some(x) the one-element one.     *)
(***************************************************************************)
None == << >>
Some(x) == << x >>
IsSome(o) == o # None
Unwrap(o) == o[1]

(***************************************************************************)
(* f32 arithmetic.  `a as f32 / b as f32` for u32 a, b below 2^24 (the     *)
(* conversions are then exact): round-to-nearest-even binary32 quotient.   *)
(* A finite non-zero value is m * 2^(e-23) with 2^23 <= m < 2^24.          *)
(***************************************************************************)
F32NaN == [class |-> "nan", m |-> 0, e |-> 0]
F32Inf == [class |-> "inf", m |-> 0, e |-> 0]
F32Zero == [class |-> "zero", m |-> 0, e |-> 0]
F32Normal(m, e) == [class |-> "normal", m |-> m, e |-> e]

RECURSIVE Pow2(_)
Pow2(k) == IF k = 0 THEN 1 ELSE 2 * Pow2(k - 1)

\* Smallest k in 0..12 with x * 2^k >= y (x >= 1, y < 2^12 * x).
RECURSIVE ShiftUp(_, _, _)
ShiftUp(x, y, k) == IF x * Pow2(k) >= y \/ k = 12 THEN k ELSE ShiftUp(x, y, k + 1)

\* Largest k in 0..12 with y * 2^k <= x (y >= 1, y <= x).
RECURSIVE ShiftDown(_, _, _)
ShiftDown(x, y, k) == IF k = 12 \/ y * Pow2(k + 1) > x THEN k ELSE ShiftDown(x, y, k + 1)

\* Long division: `bits` more quotient bits of rem/b appended to mant (rem < 2b).
RECURSIVE QuotBits(_, _, _, _)
QuotBits(rem, b, bits, mant) ==
    IF bits = 0 THEN << mant, rem >>
    ELSE LET bit == IF rem >= b THEN 1 ELSE 0
         IN  QuotBits(2 * (rem - bit * b), b, bits - 1, 2 * mant + bit)

\* a / b for b <= a < 2b: 24 significand bits, then round to nearest, ties to even.
RoundedSignificand(a, b) ==
    LET q == QuotBits(a, b, 24, 0)
        m == q[1]
        r == q[2]          \* twice the remainder: r/(2b) is the discarded fraction
    IN  IF r > b \/ (r = b /\ m % 2 = 1) THEN m + 1 ELSE m

F32Div(a, b) ==
    IF b = 0 THEN (IF a = 0 THEN F32NaN ELSE F32Inf)
    ELSE IF a = 0 THEN F32Zero
    ELSE IF a >= b
         THEN LET k == ShiftDown(a, b, 0)
                  m == RoundedSignificand(a, b * Pow2(k))
              IN  IF m = 16777216 THEN F32Normal(8388608, k + 1) ELSE F32Normal(m, k)
         ELSE LET k == ShiftUp(a, b, 0)
                  m == RoundedSignificand(a * Pow2(k), b)
              IN  IF m = 16777216 THEN F32Normal(8388608, 1 - k) ELSE F32Normal(m, 0 - k)

(***************************************************************************)
(* Shape::generate_vertices.  A vertex position is a pair of f32; a rim    *)
(* coordinate center + radius * cos/sin((k * 2*PI) / segments) is kept as  *)
(* the term that computes it (cos and sin are not evaluated), except that  *)
(* radius 0 gives the center coordinate itself.  Center coordinates and    *)
(* radii are in hundredths.                                                *)
(***************************************************************************)
Circle(center, radius, segments) ==
    [kind |-> "Circle", center |-> center, radius |-> radius, segments |-> segments]

Coord(c) == [fn |-> "const", c |-> c, r |-> 0, k |-> 0, n |-> 0]

RimCoord(fn, c, radius, k, segments) ==
    IF radius = 0 THEN Coord(c)
    ELSE [fn |-> fn, c |-> c, r |-> radius, k |-> k, n |-> segments]

\* [center[0] + radius * angle.cos(), center[1] + radius * angle.sin()],
\* angle = (k as f32 * 2.0 * PI) / segments as f32
RimPoint(center, radius, k, segments) ==
    << RimCoord("cos", center[1], radius, k, segments),
       RimCoord("sin", center[2], radius, k, segments) >>

CenterPoint(center) == << Coord(center[1]), Coord(center[2]) >>

Vertex(position) == [position |-> position]

\* The body of `for i in 0..*segments`: the three pushes of iteration i.
circle_loop_body_wrapping(center, radius, segments, i) ==
    << Vertex(CenterPoint(center)),
       Vertex(RimPoint(center, radius, i, segments)),
       Vertex(RimPoint(center, radius, (i + 1) % segments, segments)) >>

circle_loop_body(center, radius, segments, i) ==
    << Vertex(CenterPoint(center)),
       Vertex(RimPoint(center, radius, i, segments)),
       Vertex(RimPoint(center, radius, i + 1, segments)) >>

RECURSIVE circle_loop(_, _, _, _, _)
circle_loop(center, radius, segments, i, vertices) ==
    IF i >= segments THEN vertices
    ELSE circle_loop(center, radius, segments, i + 1,
                     vertices \o circle_loop_body(center, radius, segments, i))

generate_vertices(shape) ==
    circle_loop(shape.center, shape.radius, shape.segments, 0, << >>)

(***************************************************************************)
(* Inputs of the host.                                                     *)
(***************************************************************************)
SmallDims == 0 .. MaxSmallDim
NamedSizes == { << 800, 600 >>, << 1920, 1080 >> }   \* << width, height >>
\* PhysicalSize<u32> carried by WindowEvent::Resized
ResizeSizes == (SmallDims \X SmallDims) \cup NamedSizes
\* inner_size() of a window the host has just created: both dimensions positive
InnerSizes == { sz \in ResizeSizes : sz[1] >= 1 /\ sz[2] >= 1 }
\* PhysicalPosition<f64> carried by WindowEvent::CursorMoved, in whole pixels
CursorPositions == (0 .. MaxCursor) \X (0 .. 1)

NoPanic == "none"
\* Where `resumed` can panic: the unwrap/expect calls and the formats[0] index.
InitOutcomes == { "ok", "create_window", "create_surface", "request_adapter",
                  "request_device", "formats_index" }
\* Surface::get_current_texture returns Ok or Err
AcquireOutcomes == { "ok", "get_current_texture" }

Event(type, arg) == [type |-> type, arg |-> arg]
NoEvent == Event("none", << >>)

\* A GPU call: its name and what it was given.
Call(op, arg) == [op |-> op, arg |-> arg]
ClearColor == << 1, 2, 3, 10 >>   \* r 0.1, g 0.2, b 0.3, a 1.0, in tenths

(***************************************************************************)
(* App::default and main.                                                  *)
(***************************************************************************)
ConfiguredCircle == Circle(<< 0, 0 >>, 5, 32)    \* center [0.0, 0.0], radius 0.05

AppDefault ==
    /\ window = None
    /\ surface = None
    /\ device = None
    /\ queue = None
    /\ render_pipeline = None
    /\ vertex_buffer = None
    /\ config = None
    /\ shapes = << >>
    /\ num_vertices = 0
    /\ uniform_buffer = None
    /\ uniform_bind_group = None
    /\ mouse_state = [position |-> << Coord(0), Coord(0) >>]

Init ==
    /\ AppDefault
    /\ redraw_requested = FALSE
    /\ exiting = FALSE
    /\ pc = "running"
    /\ panic = NoPanic
    /\ init_count = 0
    /\ resumed_count = 0
    /\ last_event = NoEvent
    /\ resize_repeats = 0
    /\ last_resize = None
    /\ frame_log = << >>
    /\ tess_in = ConfiguredCircle
    /\ tess_out = None

\* The frame renderer's Ready state: every resource field is Some.
Ready ==
    /\ IsSome(window) /\ IsSome(surface) /\ IsSome(device) /\ IsSome(queue)
    /\ IsSome(render_pipeline) /\ IsSome(vertex_buffer) /\ IsSome(config)
    /\ IsSome(uniform_buffer) /\ IsSome(uniform_bind_group)

\* The event loop calls a handler: the process is alive and run_app has not returned.
Dispatching == pc = "running" /\ panic = NoPanic

\* A window event exists only for a window the host created (in `resumed`).
WindowEventDeliverable == Dispatching /\ resumed_count > 0

host_unchanged == UNCHANGED << exiting, pc, tess_in, tess_out >>

(***************************************************************************)
(* App::update_uniform_buffer: the contents of the uniform buffer after    *)
(* the call.                                                               *)
(***************************************************************************)
update_uniform_buffer_swapped(width, height) ==
    IF IsSome(queue) /\ IsSome(uniform_buffer)
    THEN Some([Unwrap(uniform_buffer) EXCEPT !.contents = F32Div(width, height)])
    ELSE uniform_buffer

update_uniform_buffer_stale(width, height) ==
    IF IsSome(queue) /\ IsSome(uniform_buffer) /\ IsSome(config)
    THEN Some([Unwrap(uniform_buffer) EXCEPT
                  !.contents = F32Div(Unwrap(config).height, Unwrap(config).width)])
    ELSE uniform_buffer

update_uniform_buffer(width, height) ==
    IF IsSome(queue) /\ IsSome(uniform_buffer)
    THEN Some([Unwrap(uniform_buffer) EXCEPT !.contents = F32Div(height, width)])
    ELSE uniform_buffer

(***************************************************************************)
(* App::initialize_wgpu, called by `resumed` on a freshly created window.  *)
(***************************************************************************)
\* for shape in &self.shapes { vertices.extend(shape.generate_vertices()) }
RECURSIVE collect_vertices(_)
collect_vertices(shs) ==
    IF shs = << >> THEN << >>
    ELSE generate_vertices(Head(shs)) \o collect_vertices(Tail(shs))

\* self.num_vertices = vertices.len() as u32 (lengths here are far below 2^32,
\* where the cast is the identity)
count_vertices_as_triangles(vertices) == Len(vertices) \div 3

count_vertices(vertices) == Len(vertices)

\* The panics before any field of self is assigned.
EarlyInitFailures == { "create_window", "create_surface", "request_adapter", "request_device" }

initialize_wgpu(win, size, outcome) ==
    LET gen == init_count + 1
        new_shapes == << ConfiguredCircle >>
        vertices == collect_vertices(new_shapes)
    IN  IF outcome \in EarlyInitFailures
        THEN /\ panic' = outcome
             /\ UNCHANGED << app_fields, init_count, redraw_requested, last_resize >>
        ELSE IF outcome = "formats_index"
        THEN /\ panic' = outcome
             /\ shapes' = new_shapes
             /\ num_vertices' = count_vertices(vertices)
             /\ UNCHANGED << window, surface, device, queue, render_pipeline, vertex_buffer,
                             config, uniform_buffer, uniform_bind_group, mouse_state,
                             init_count, redraw_requested, last_resize >>
        ELSE /\ shapes' = new_shapes
             /\ num_vertices' = count_vertices(vertices)
             /\ window' = Some(win)
             /\ surface' = Some([gen |-> gen, window |-> win.id,
                                 width |-> size[1], height |-> size[2]])
             /\ device' = Some([gen |-> gen])
             /\ queue' = Some([gen |-> gen])
             /\ render_pipeline' = Some([gen |-> gen])
             /\ vertex_buffer' = Some([gen |-> gen, contents |-> vertices])
             /\ config' = Some([width |-> size[1], height |-> size[2]])
             /\ uniform_buffer' = Some([gen |-> gen, contents |-> F32Div(size[2], size[1])])
             /\ uniform_bind_group' = Some([gen |-> gen, buffer |-> gen])
             /\ init_count' = gen
             /\ redraw_requested' = FALSE     \* the new window has no pending request
             /\ last_resize' = None
             /\ UNCHANGED << mouse_state, panic >>

\* ApplicationHandler::resumed
Resumed ==
    /\ Dispatching
    /\ resumed_count < MaxResumes
    /\ \E size \in InnerSizes, outcome \in InitOutcomes :
          initialize_wgpu([id |-> resumed_count + 1], size, outcome)
    /\ resumed_count' = resumed_count + 1
    /\ last_event' = Event("Resumed", << >>)
    /\ resize_repeats' = 0
    /\ frame_log' = << >>
    /\ host_unchanged

(***************************************************************************)
(* App::window_event                                                       *)
(***************************************************************************)
\* WindowEvent::CloseRequested
CloseRequested ==
    /\ WindowEventDeliverable
    /\ exiting' = TRUE
    /\ last_event' = Event("CloseRequested", << >>)
    /\ resize_repeats' = 0
    /\ frame_log' = << >>
    /\ UNCHANGED << app_fields, redraw_requested, pc, panic, init_count, resumed_count,
                    last_resize, tess_in, tess_out >>

\* new_size.width.max(1), new_size.height.max(1)
clamp_dim_unclamped(d) == d

clamp_dim(d) == IF d >= 1 THEN d ELSE 1

\* WindowEvent::Resized(new_size)
Resized ==
    /\ WindowEventDeliverable
    /\ \E new_size \in ResizeSizes :
          /\ last_event' = Event("Resized", new_size)
          /\ resize_repeats' = IF last_event # Event("Resized", new_size) THEN 1
                                ELSE IF resize_repeats < MaxRepeats THEN resize_repeats + 1
                                ELSE resize_repeats
          /\ IF IsSome(surface) /\ IsSome(device) /\ IsSome(config)
             THEN LET w == clamp_dim(new_size[1])
                      h == clamp_dim(new_size[2])
                  IN  /\ config' = Some([Unwrap(config) EXCEPT !.width = w, !.height = h])
                      /\ surface' = Some([Unwrap(surface) EXCEPT !.width = w, !.height = h])
                      /\ uniform_buffer' = update_uniform_buffer(new_size[1], new_size[2])
                      /\ IF IsSome(window)
                         THEN redraw_requested' = TRUE /\ UNCHANGED panic
                         ELSE panic' = "window_unwrap" /\ UNCHANGED redraw_requested
                      /\ last_resize' = Some(new_size)
             ELSE UNCHANGED << config, surface, uniform_buffer, redraw_requested, panic,
                               last_resize >>
    /\ frame_log' = << >>
    /\ UNCHANGED << window, device, queue, render_pipeline, vertex_buffer, shapes,
                    num_vertices, uniform_bind_group, mouse_state, init_count,
                    resumed_count >>
    /\ host_unchanged

(***************************************************************************)
(* App::render_frame: the GPU calls it makes, in order.  `acquired` is the *)
(* result of Surface::get_current_texture.                                 *)
(***************************************************************************)
RenderResourcesPresent ==
    /\ IsSome(surface) /\ IsSome(device) /\ IsSome(queue) /\ IsSome(render_pipeline)
    /\ IsSome(vertex_buffer) /\ IsSome(uniform_bind_group)

render_frame_calls_present_first(acquired) ==
    IF ~RenderResourcesPresent THEN << >>
    ELSE IF acquired # "ok" THEN << Call("get_current_texture", << "Err" >>) >>
    ELSE << Call("get_current_texture", << "Ok" >>),
            Call("create_view", << >>),
            Call("create_command_encoder", << >>),
            Call("begin_render_pass", << "Clear", ClearColor >>),
            Call("set_pipeline", << Unwrap(render_pipeline).gen >>),
            Call("set_bind_group", << 0, Unwrap(uniform_bind_group).gen >>),
            Call("set_vertex_buffer", << 0, Unwrap(vertex_buffer).gen >>),
            Call("draw", << 0, num_vertices, 0, 1 >>),
            Call("end_render_pass", << >>),
            Call("finish", << >>),
            Call("present", << >>),
            Call("submit", << Unwrap(uniform_buffer).contents >>) >>

render_frame_calls_ignoring_error(acquired) ==
    IF ~RenderResourcesPresent THEN << >>
    ELSE << Call("get_current_texture", << IF acquired = "ok" THEN "Ok" ELSE "Err" >>),
            Call("create_view", << >>),
            Call("create_command_encoder", << >>),
            Call("begin_render_pass", << "Clear", ClearColor >>),
            Call("set_pipeline", << Unwrap(render_pipeline).gen >>),
            Call("set_bind_group", << 0, Unwrap(uniform_bind_group).gen >>),
            Call("set_vertex_buffer", << 0, Unwrap(vertex_buffer).gen >>),
            Call("draw", << 0, num_vertices, 0, 1 >>),
            Call("end_render_pass", << >>),
            Call("finish", << >>),
            Call("submit", << Unwrap(uniform_buffer).contents >>),
            Call("present", << >>) >>

\* The argument of submit is the uniform value the submitted pass reads.
render_frame_calls(acquired) ==
    IF ~RenderResourcesPresent THEN << >>
    ELSE IF acquired # "ok" THEN << Call("get_current_texture", << "Err" >>) >>
    ELSE << Call("get_current_texture", << "Ok" >>),
            Call("create_view", << >>),
            Call("create_command_encoder", << >>),
            Call("begin_render_pass", << "Clear", ClearColor >>),
            Call("set_pipeline", << Unwrap(render_pipeline).gen >>),
            Call("set_bind_group", << 0, Unwrap(uniform_bind_group).gen >>),
            Call("set_vertex_buffer", << 0, Unwrap(vertex_buffer).gen >>),
            Call("draw", << 0, num_vertices, 0, 1 >>),
            Call("end_render_pass", << >>),
            Call("finish", << >>),
            Call("submit", << Unwrap(uniform_buffer).contents >>),
            Call("present", << >>) >>

render_frame(acquired) ==
    /\ frame_log' = render_frame_calls(acquired)
    /\ panic' = IF RenderResourcesPresent /\ acquired # "ok" THEN acquired ELSE panic

\* WindowEvent::RedrawRequested
RedrawRequested ==
    /\ WindowEventDeliverable
    /\ \E acquired \in AcquireOutcomes : render_frame(acquired)
    /\ redraw_requested' = FALSE
    /\ last_event' = Event("RedrawRequested", << >>)
    /\ resize_repeats' = 0
    /\ UNCHANGED << app_fields, init_count, resumed_count, last_resize >>
    /\ host_unchanged

\* WindowEvent::KeyboardInput: prints the key when it is pressed
KeyboardInput ==
    /\ WindowEventDeliverable
    /\ \E state \in { "Pressed", "Released" } :
          last_event' = Event("KeyboardInput", << state >>)
    /\ resize_repeats' = 0
    /\ frame_log' = << >>
    /\ UNCHANGED << app_fields, redraw_requested, panic, init_count, resumed_count,
                    last_resize >>
    /\ host_unchanged

\* App::window_position_to_ndc: the position in normalized device coordinates,
\* kept as the term that computes it.
window_position_to_ndc(position) ==
    << [fn |-> "ndc_x", c |-> position[1], r |-> 0, k |-> 0, n |-> 0],
       [fn |-> "ndc_y", c |-> position[2], r |-> 0, k |-> 0, n |-> 0] >>

\* The fields of self the CursorMoved arm assigns.
cursor_moved_fields_feeding_uniform(position) ==
    /\ mouse_state' = [mouse_state EXCEPT !.position = window_position_to_ndc(position)]
    /\ uniform_buffer' = update_uniform_buffer(position[1] + 1, position[2] + 2)
    /\ UNCHANGED << window, surface, device, queue, render_pipeline, vertex_buffer,
                    config, shapes, num_vertices, uniform_bind_group >>

cursor_moved_fields(position) ==
    /\ mouse_state' = [mouse_state EXCEPT !.position = window_position_to_ndc(position)]
    /\ UNCHANGED << window, surface, device, queue, render_pipeline, vertex_buffer,
                    config, shapes, num_vertices, uniform_buffer, uniform_bind_group >>

\* WindowEvent::CursorMoved { position }
CursorMoved ==
    /\ WindowEventDeliverable
    /\ \E position \in CursorPositions :
          /\ cursor_moved_fields(position)
          /\ last_event' = Event("CursorMoved", position)
    /\ resize_repeats' = 0
    /\ IF IsSome(window)
       THEN redraw_requested' = TRUE /\ UNCHANGED panic
       ELSE panic' = "window_unwrap" /\ UNCHANGED redraw_requested
    /\ frame_log' = << >>
    /\ UNCHANGED << init_count, resumed_count, last_resize >>
    /\ host_unchanged

\* EventLoop::run_app returns once exit() was called.
LoopExit ==
    /\ Dispatching
    /\ exiting
    /\ pc' = "exited"
    /\ UNCHANGED << app_fields, redraw_requested, exiting, panic, init_count,
                    resumed_count, last_event, resize_repeats, last_resize, frame_log,
                    tess_in, tess_out >>

Next ==
    \/ Resumed
    \/ CloseRequested
    \/ Resized
    \/ RedrawRequested
    \/ KeyboardInput
    \/ CursorMoved
    \/ LoopExit

Spec == Init /\ [][Next]_vars

(***************************************************************************)
(* generate_vertices on its own: called once on a circle drawn from a      *)
(* bounded set of centers, radii (zero, positive, negative) and segment    *)
(* counts.                                                                 *)
(***************************************************************************)
TessCenters == { -100, 0, 50 } \X { -100, 0, 50 }
TessRadii == { 0, 5, -50 }
TessInputs ==
    { Circle(c, r, n) : c \in TessCenters, r \in TessRadii, n \in 0 .. MaxSegments }

TessInit ==
    /\ AppDefault
    /\ redraw_requested = FALSE
    /\ exiting = FALSE
    /\ pc = "running"
    /\ panic = NoPanic
    /\ init_count = 0
    /\ resumed_count = 0
    /\ last_event = NoEvent
    /\ resize_repeats = 0
    /\ last_resize = None
    /\ frame_log = << >>
    /\ tess_in \in TessInputs
    /\ tess_out = None

TessCall ==
    /\ tess_out = None
    /\ tess_out' = Some(generate_vertices(tess_in))
    /\ UNCHANGED << app_fields, redraw_requested, exiting, pc, panic, init_count,
                    resumed_count, last_event, resize_repeats, last_resize, frame_log,
                    tess_in >>

TessNext == TessCall

TessSpec == TessInit /\ [][TessNext]_vars

(***************************************************************************)
(* Helpers of the properties.                                              *)
(***************************************************************************)
\* The calls of a log with the given name.
CallsOf(log, op) == SelectSeq(log, LAMBDA c : c.op = op)

\* The names of the calls of a log that are among `ops`, in order.
OpsAmong(log, ops) ==
    LET picked == SelectSeq(log, LAMBDA c : c.op \in ops)
    IN  [i \in 1 .. Len(picked) |-> picked[i].op]

\* The step is the handling of WindowEvent::Resized(sz).
ResizedStep(sz) == last_event' = Event("Resized", sz) /\ pc' = pc /\ pc = "running"

\* The step is the handling of WindowEvent::CursorMoved at position p.
CursorMovedStep(p) == last_event' = Event("CursorMoved", p) /\ pc' = pc /\ pc = "running"

\* IEEE-754 equality of two f32: NaN equals nothing.
F32Eq(x, y) == x.class # "nan" /\ y.class # "nan" /\ x = y

\* C1: in every Ready state num_vertices, the count render_frame draws
\* (range 0..num_vertices), equals the number of vertices in the uploaded
\* vertex buffer, and for the configured circle both are 96.
C1_DrawCountMatchesBuffer ==
    Ready =>
        /\ num_vertices = Len(Unwrap(vertex_buffer).contents)
        /\ num_vertices = 96
        /\ \A i \in 1 .. Len(frame_log) :
              frame_log[i].op = "draw" =>
                 frame_log[i].arg = << 0, Len(Unwrap(vertex_buffer).contents), 0, 1 >>

C1_Witness ==
    /\ Ready
    /\ last_event.type = "RedrawRequested"
    /\ Len(CallsOf(frame_log, "draw")) = 1
    /\ Len(Unwrap(vertex_buffer).contents) = 96

\* C2: the initialization sequence runs at most once in a run, whatever the
\* number of resumed notifications.
C2_InitializedAtMostOnce == init_count <= 1

\* C3: a Resized(w, h) handled in the Ready state does not abort the process
\* and leaves the surface configured with width max(w, 1) and height max(h, 1).
C3_ResizeClampsAndSurvives ==
    [][\A sz \in ResizeSizes :
          (Ready /\ ResizedStep(sz)) =>
              /\ panic' = NoPanic
              /\ surface'[1].width = (IF sz[1] > 1 THEN sz[1] ELSE 1)
              /\ surface'[1].height = (IF sz[2] > 1 THEN sz[2] ELSE 1)
              /\ config'[1].width = surface'[1].width
              /\ config'[1].height = surface'[1].height
              /\ surface'[1].width >= 1 /\ surface'[1].height >= 1]_vars

C3_Witness ==
    /\ Ready
    /\ panic = NoPanic
    /\ last_event = Event("Resized", << 0, 0 >>)
    /\ Unwrap(surface).width = 1
    /\ Unwrap(surface).height = 1

C5_RenderFrameSequence ==
    (Ready /\ last_event.type = "RedrawRequested" /\ panic = NoPanic) =>
        /\ OpsAmong(frame_log, { "get_current_texture", "begin_render_pass", "set_pipeline",
                                 "set_bind_group", "set_vertex_buffer", "draw", "submit",
                                 "present" })
             = << "get_current_texture", "begin_render_pass", "set_pipeline",
                  "set_bind_group", "set_vertex_buffer", "draw", "submit", "present" >>
        /\ CallsOf(frame_log, "begin_render_pass")[1].arg = << "Clear", ClearColor >>
        /\ CallsOf(frame_log, "draw")[1].arg = << 0, num_vertices, 0, 1 >>
        /\ CallsOf(frame_log, "set_pipeline")[1].arg = << Unwrap(render_pipeline).gen >>
        /\ CallsOf(frame_log, "set_bind_group")[1].arg = << 0, Unwrap(uniform_bind_group).gen >>
        /\ CallsOf(frame_log, "set_vertex_buffer")[1].arg = << 0, Unwrap(vertex_buffer).gen >>

C5_Witness ==
    /\ Ready
    /\ last_event.type = "RedrawRequested"
    /\ panic = NoPanic
    /\ Len(frame_log) = 12
    /\ frame_log[Len(frame_log)].op = "present"

\* C6: generate_vertices on a circle of n segments returns 3n vertices (none
\* when n = 0), triple i being the center, the rim point of angle index i and
\* the rim point of angle index i + 1.
C6_TessellationShape ==
    IsSome(tess_out) =>
        LET out == Unwrap(tess_out)
            n == tess_in.segments
        IN  /\ Len(out) = 3 * n
            /\ n = 0 => out = << >>
            /\ \A i \in 0 .. n - 1 :
                  /\ out[3 * i + 1].position = CenterPoint(tess_in.center)
                  /\ out[3 * i + 2].position
                        = RimPoint(tess_in.center, tess_in.radius, i, n)
                  /\ out[3 * i + 3].position
                        = RimPoint(tess_in.center, tess_in.radius, i + 1, n)

C6_Witness ==
    /\ IsSome(tess_out)
    /\ tess_in.segments = 3
    /\ tess_in.radius = 5
    /\ Len(Unwrap(tess_out)) = 9

\* C7: a Resized carrying the same size as the Resized handled just before it
\* leaves the surface configuration, the uniform, the vertex buffer and
\* num_vertices as they were.
C7_ResizeIdempotent ==
    [][\A sz \in ResizeSizes :
          (Ready /\ ResizedStep(sz) /\ last_event = Event("Resized", sz)) =>
              /\ config' = config
              /\ surface' = surface
              /\ uniform_buffer' = uniform_buffer
              /\ vertex_buffer' = vertex_buffer
              /\ num_vertices' = num_vertices
              /\ panic' = panic]_vars

C7_Witness ==
    /\ Ready
    /\ resize_repeats = 2
    /\ last_event = Event("Resized", << 800, 600 >>)
    /\ Unwrap(config) = [width |-> 800, height |-> 600]
    /\ Unwrap(uniform_buffer).contents = F32Normal(12582912, -1)

\* C8: a failing step of initialization aborts the process without storing
\* any resource (Ready is not entered by it); a failing image acquisition
\* aborts render_frame before a render pass is opened, anything is submitted
\* or presented; and an aborted process handles no further event.
InitPanics == EarlyInitFailures \cup { "formats_index" }

C8_FailuresAreFatal ==
    [][/\ panic = NoPanic
       /\ panic' \in InitPanics =>
             /\ last_event'.type = "Resumed"
             /\ init_count' = init_count
             /\ Ready' = Ready
             /\ << window, surface, device, queue, render_pipeline, vertex_buffer, config,
                   uniform_buffer, uniform_bind_group >>'
                  = << window, surface, device, queue, render_pipeline, vertex_buffer, config,
                       uniform_buffer, uniform_bind_group >>
             /\ (init_count = 0 => ~Ready')
       /\ panic' = "get_current_texture" =>
             /\ last_event'.type = "RedrawRequested"
             /\ OpsAmong(frame_log', { "begin_render_pass", "draw", "submit", "present" })
                   = << >>
       /\ (last_event'.type = "RedrawRequested" /\ Len(CallsOf(frame_log', "submit")) > 0) =>
             /\ panic' = NoPanic
             /\ CallsOf(frame_log', "get_current_texture")[1].arg = << "Ok" >>]_vars

C8_Witness ==
    /\ panic = "get_current_texture"
    /\ Ready
    /\ last_event.type = "RedrawRequested"
    /\ frame_log = << Call("get_current_texture", << "Err" >>) >>

C8_InitFailureWitness ==
    /\ panic = "request_adapter"
    /\ ~Ready
    /\ last_event.type = "Resumed"

\* C9: a cursor-moved event in the Ready state sets MouseState to the mapped
\* position and requests a redraw, and leaves the surface configuration, the
\* uniform, the vertex buffer and num_vertices unchanged.
C9_CursorMoveOnlyTouchesMouseState ==
    [][\A p \in CursorPositions :
          (Ready /\ CursorMovedStep(p)) =>
              /\ mouse_state'.position = window_position_to_ndc(p)
              /\ redraw_requested'
              /\ panic' = NoPanic
              /\ config' = config
              /\ surface' = surface
              /\ uniform_buffer' = uniform_buffer
              /\ uniform_bind_group' = uniform_bind_group
              /\ vertex_buffer' = vertex_buffer
              /\ num_vertices' = num_vertices
              /\ shapes' = shapes]_vars

C9_Witness ==
    /\ Ready
    /\ last_event = Event("CursorMoved", << 1, 1 >>)
    /\ mouse_state.position = window_position_to_ndc(<< 1, 1 >>)
    /\ redraw_requested
    /\ IsSome(last_resize)

\* C10: in every Ready state the uniform equals configured surface height /
\* configured surface width (the clamped dimensions).
C10_UniformMatchesConfiguredSurface ==
    Ready =>
        Unwrap(uniform_buffer).contents
            = F32Div(Unwrap(surface).height, Unwrap(surface).width)

====
